---- MODULE Spec2Model ----
(***************************************************************************)
(* Model of src/main.py (Ollama Web Search): the search pipeline of        *)
(* WebSearchAssistant (query optimization, federated search, result        *)
(* selection, content retrieval, history record, answer synthesis), its    *)
(* retry loop, its backend fallback loop and its history store.            *)
(*                                                                         *)
(* Conventions.  A Python Optional value is a sequence of length <= 1:     *)
(* None is <<>> and a value v is <<v>>.  A parsed text is a sequence of    *)
(* lines and a line is a sequence of tokens (strings); the token " " is    *)
(* whitespace.  The text of a file is a sequence of JSON tokens.           *)
(***************************************************************************)
EXTENDS Integers, Sequences, FiniteSets, TLC

VARIABLES
    \* configuration and command line
    cfg_max_retries,    \* CONFIG['max_retries']
    searxng_instances,  \* CONFIG['searxng_instances']
    mode,               \* which of --history, --config, --query, none was given
    \* the process
    pc,                 \* position of the process
    search_history,     \* self.search_history: a JSON value
    file,               \* the history file: None or Some(text)
    \* locals of interactive_search / main
    question, search_query, results, result, content,
    \* model_response: the loop of one call
    attempt,            \* attempts made by the running call, or by the
                        \* call that just returned
    sleeps,             \* delays slept by that call
    \* browse_web: the loop of one call
    inst,               \* index of the next instance of the running call
    requested,          \* the GETs of the running call, or of the call that
                        \* just returned: instance and response, in order
    \* observation of the runs
    run,                \* number of pipeline runs started
    stamped,            \* run that took each reading of datetime.now()
    trace,              \* stages entered by the current run, in order
    outcome,            \* how the current (or last) run ended
    ended,              \* outcomes of the finished runs, by run number
    assigned,           \* local name -> run that last assigned it
    hist0, file0,       \* history and file when the current run started
    loaded,             \* the history __init__ loaded
    write_status,       \* outcome of the last write of the history file
    synth,              \* arguments and result of the last streaming call
    appended,           \* HistoryStore alone: the entries appended so far
    ollama,             \* outcome of the ollama.list() check of main
    \* the component specifications
    page,               \* length of response.text.strip() of the page fetched
    reply,              \* the inference reply select_best_result parses
    peer_history,       \* self.search_history of a second assistant
    peer_status         \* outcome of the second assistant's last write

vars == <<cfg_max_retries, searxng_instances, mode, pc, search_history, file,
          question, search_query, results, result, content, attempt, sleeps,
          inst, requested, run, stamped, trace, outcome, ended, assigned,
          hist0, file0, loaded, write_status, synth, appended, ollama, page,
          reply, peer_history, peer_status>>

----------------------------------------------------------------------------
(* Bounds of the model *)

\* pipeline runs one process starts
MaxRuns == 2
\* appends of the HistoryStore specification
MaxAppends == 52
\* tokens written before a failing write stops
MaxPartial == 0

(* Program constants *)

\* model_response(..., max_retries: int = 3)
DefaultMaxRetries == 3
\* CONFIG default 'max_results': 8
max_results == 8
\* save_search_to_history: keep only last 50 searches
HistoryCap == 50
\* retrieve_page_information: len(content) > 10000
ContentLimit == 10000

----------------------------------------------------------------------------
(* Python values *)

None == <<>>
Some(v) == <<v>>
IsNone(o) == o = <<>>
Val(o) == o[1]

Min(a, b) == IF a < b THEN a ELSE b
Max(a, b) == IF a > b THEN a ELSE b

\* s[:n] for n >= 0
Take(s, n) == SubSeq(s, 1, Min(n, Len(s)))
\* s[-n:] for n > 0
LastN(s, n) == SubSeq(s, Max(1, Len(s) - n + 1), Len(s))

\* d.get(k, default)
Get(d, k, default) == IF k \in DOMAIN d THEN d[k] ELSE default

Range(s) == {s[i] : i \in 1..Len(s)}

----------------------------------------------------------------------------
(* The history store *)

\* a JSON token of the history file
Tok(t) == [t |-> t, v |-> <<>>]
EntryTok(e) == [t |-> "entry", v |-> <<e>>]

\* the values json.load can return for the file
Array(items) == [type |-> "array", items |-> items]
Object == [type |-> "object", items |-> <<>>]

\* json.dump(self.search_history, f, indent=2): the complete text
Dump(items) ==
    <<Tok("[")>> \o [i \in 1..Len(items) |-> EntryTok(items[i])] \o <<Tok("]")>>

\* json.load(f): Some(value), or None when it raises
Parse(text) ==
    IF Len(text) >= 2 /\ text[1] = Tok("[") /\ text[Len(text)] = Tok("]")
       /\ \A i \in 2..(Len(text) - 1) : text[i].t = "entry"
    THEN Some(Array([i \in 1..(Len(text) - 2) |-> text[i + 1].v[1]]))
    ELSE IF text = <<Tok("{"), Tok("}")>>
    THEN Some(Object)
    ELSE None

\* load_history(self)
load_history(f) ==
    IF IsNone(f) THEN Array(<<>>)
    ELSE IF IsNone(Parse(Val(f))) THEN Array(<<>>)
    ELSE Val(Parse(Val(f)))

\* datetime.now().isoformat()
Now == Len(stamped) + 1

\* the entry built by save_search_to_history
Entry(ts, q, query, res) ==
    [timestamp |-> ts, question |-> q, query |-> query, result |-> res]

\* a slip: a failed write is left to propagate to the caller
SaveContinues_ok(w) == w = "ok"

\* lines 195-199: the `except Exception` around the write lets the caller go
\* on whatever the outcome w of the write
SaveContinues(w) == TRUE

\* self.search_history.append(entry) raises on a value that is no list
CanAppend(h) == h.type = "array"

\* a slip: the first 50 entries are kept instead of the last 50
Trimmed_first(items) ==
    IF Len(items) > HistoryCap THEN Take(items, HistoryCap) ELSE items

\* keep only last 50 searches
Trimmed(items) ==
    IF Len(items) > HistoryCap THEN LastN(items, HistoryCap) ELSE items

\* the outcomes of open(..., 'w') and json.dump
WriteOutcomes == {"ok", "open_failed", "partial"}

\* the file after the write: complete, untouched (open raised), or truncated
\* by open and holding the first k tokens (json.dump raised)
Written(f, items, w, k) ==
    CASE w = "ok" -> Some(Dump(items))
      [] w = "open_failed" -> f
      [] w = "partial" -> Some(Take(Dump(items), Min(k, Len(Dump(items)) - 1)))

\* a slip: the file is written before the entry is appended
SaveSearchToHistory_writeFirst(query, q, res, w, k) ==
    LET entry == Entry(Now, q, query, res)
        items == Trimmed(Append(search_history.items, entry))
    IN  /\ search_history' = Array(items)
        /\ file' = Written(file, search_history.items, w, k)
        /\ write_status' = IF w = "ok" THEN "ok" ELSE "failed"
        /\ stamped' = Append(stamped, run)

\* save_search_to_history(self, query, question, result), on a list
SaveSearchToHistory(query, q, res, w, k) ==
    LET entry == Entry(Now, q, query, res)
        items == Trimmed(Append(search_history.items, entry))
    IN  /\ search_history' = Array(items)
        /\ file' = Written(file, items, w, k)
        /\ write_status' = IF w = "ok" THEN "ok" ELSE "failed"
        /\ stamped' = Append(stamped, run)

\* entries left in the file by earlier processes
OldEntry(i) ==
    Entry(i - 100, "old", "old query",
          [title |-> <<"old">>, url |-> <<"https", ":", "old">>])
OldItems(n) == [i \in 1..n |-> OldEntry(i)]

\* the history file found at process start
InitialFiles ==
    { None,
      Some(Dump(OldItems(HistoryCap - 1))),
      Some(Dump(OldItems(HistoryCap))),
      Some(<<Tok("{"), Tok("}")>>),
      Some(<<Tok("[")>>) }

----------------------------------------------------------------------------
(* The inference client: model_response *)

\* the max_retries of the calls at lines 247 and 269: neither passes it
CallMaxRetries == DefaultMaxRetries

\* a slip: `2 * attempt`
Backoff_double(a) == 2 * a

\* time.sleep(2 ** attempt)
Backoff(a) == 2 ^ a

\* a slip: `attempt < max_retries` lets a fourth attempt follow
RetryAfter_extra(a, max) == a < max

\* after a failed attempt a: TRUE when the loop goes on (and sleeps)
RetryAfter(a, max) == a < max - 1

\* the values CONFIG['max_retries'] is given in config.json
ConfiguredRetries == {2, 3}

----------------------------------------------------------------------------
(* The search federation: browse_web *)

Digit == <<"1", "2", "3", "4", "5", "6", "7", "8", "9">>

SearchResult(b, i) ==
    [title |-> <<b, Digit[i]>>,
     url |-> <<"https", ":", b, Digit[i]>>,
     content |-> <<"snippet">>]

\* data.get('results', []) of the instance's successful response
BackendResults(b) ==
    CASE b = "A" -> [i \in 1..9 |-> SearchResult("A", i)]
      [] b = "B" -> <<SearchResult("B", 1)>>
      [] OTHER -> <<[content |-> <<"snippet">>]>>

\* what one GET of an instance can yield
Responses == {"network_error", "http_error", "malformed", "empty", "results"}

\* the cases in which the loop body raises
Raises(resp) == resp \in {"network_error", "http_error", "malformed"}

\* the results of the response, [] when it has none
ResultsOf(b, resp) == IF resp = "results" THEN BackendResults(b) ELSE <<>>

\* a slip: one result fewer than max_results is kept
Truncated_short(rs) == Take(rs, max_results - 1)

\* results[:CONFIG['max_results']]
Truncated(rs) == Take(rs, max_results)

\* a slip: a failed instance is tried again
NextInstance_same(i) == i

\* `for instance in CONFIG['searxng_instances']`: the index after i
NextInstance(i) == i + 1

\* the record of one GET: the instance and whether the response raised in
\* the loop body, had no results, or had results
Get1(b, resp) ==
    [instance |-> b,
     response |-> IF Raises(resp) THEN "raised" ELSE resp]

InstanceLists == {<<>>, <<"A", "B", "C">>}

----------------------------------------------------------------------------
(* Result selection: the parsing of select_best_result *)

IsSpace(t) == t = " "

RECURSIVE LStrip(_)
LStrip(s) == IF s # <<>> /\ IsSpace(Head(s)) THEN LStrip(Tail(s)) ELSE s

RECURSIVE RStrip(_)
RStrip(s) ==
    IF s # <<>> /\ IsSpace(s[Len(s)]) THEN RStrip(SubSeq(s, 1, Len(s) - 1)) ELSE s

\* str.strip() of a line
Strip(s) == RStrip(LStrip(s))

\* [line.strip() for line in response.strip().split('\n') if line.strip()]
RECURSIVE Lines(_)
Lines(text) ==
    IF text = <<>> THEN <<>>
    ELSE IF Strip(Head(text)) = <<>> THEN Lines(Tail(text))
    ELSE <<Strip(Head(text))>> \o Lines(Tail(text))

\* line.startswith(prefix + ':')
StartsWith(line, prefix) ==
    Len(line) >= 2 /\ line[1] = prefix /\ line[2] = ":"

\* a slip: the line is split at its last colon (rsplit)
AfterColon_rsplit(line) ==
    LET colons == {i \in 1..Len(line) : line[i] = ":"}
        last == CHOOSE i \in colons : \A j \in colons : j <= i
    IN  Strip(SubSeq(line, last + 1, Len(line)))

\* line.split(':', 1)[1].strip() of a line that starts with the prefix
AfterColon(line) == Strip(SubSeq(line, 3, Len(line)))

\* next((... for line in lines if line.startswith(prefix + ':')), None)
RECURSIVE FirstField(_, _)
FirstField(lines, prefix) ==
    IF lines = <<>> THEN None
    ELSE IF StartsWith(Head(lines), prefix) THEN Some(AfterColon(Head(lines)))
    ELSE FirstField(Tail(lines), prefix)

\* truthiness of an Optional string
Truthy(o) == ~IsNone(o) /\ Val(o) # <<>>

\* the fallback to the first result (lines 285-287)
Fallback(rs) ==
    IF rs # <<>>
    THEN Some(<<Get(rs[1], "title", <<"Unknown">>), Get(rs[1], "url", <<>>)>>)
    ELSE None

\* the part of select_best_result after the inference call returned
\* `response` (None or Some(text)): Some(<<title, url>>) or None
SelectFrom(response, rs) ==
    IF IsNone(response) \/ Val(response) = <<>> THEN None
    ELSE LET lines == Lines(Val(response))
             title == FirstField(lines, "Title")
             url == FirstField(lines, "URL")
         IN  IF Truthy(title) /\ Truthy(url)
             THEN Some(<<Val(title), Val(url)>>)
             ELSE Fallback(rs)

\* replies of the inference service to the selection prompt
SelectReplies ==
    { << <<"Title", ":", " ", "A", "2">>,
         <<"URL", ":", " ", "https", ":", "A", "2">> >>,
      << <<" ">>, <<" ", "Title", ":", "A", "2", " ">>,
         <<"URL", ":", "https", ":", "A", "2">> >>,
      << <<"I", "choose", "A", "2">> >>,
      << <<"title", ":", "A", "2">>, <<"url", ":", "https", ":", "A", "2">> >>,
      << <<"Title", ":", "A", "2">> >>,
      << <<"Title", ":", "A", "2">>, <<"URL", ":", " ">> >>,
      << <<" ">> >>,
      <<>> }

\* replies of the inference service to the query prompt ("" is the empty one)
QueryReplies == {"", "capital France"}

----------------------------------------------------------------------------
(* The content fetcher: retrieve_page_information *)

\* lengths of response.text.strip()
PageLengths == {0, ContentLimit + 1}

\* a slip: `>=` for `>`
Limited_ge(len) ==
    IF len >= ContentLimit
    THEN [chars |-> ContentLimit, marker |-> TRUE]
    ELSE [chars |-> len, marker |-> FALSE]

\* lines 146-147, content[:10000] + marker: a text is the number of leading
\* characters of the page it holds and whether the marker follows them
Limited(len) ==
    IF len > ContentLimit
    THEN [chars |-> ContentLimit, marker |-> TRUE]
    ELSE [chars |-> len, marker |-> FALSE]

\* a slip: the empty text counts as content
HasContent_any(c) == ~IsNone(c)

\* truthiness of the Optional content
HasContent(c) == ~IsNone(c) /\ (Val(c).chars > 0 \/ Val(c).marker)

----------------------------------------------------------------------------
(* The process: main and interactive_search *)

Modes == {"history", "config", "query", "interactive"}
\* the question of the r-th run: consecutive runs ask different questions
Question(r) == IF r % 2 = 1 THEN "q1" ELSE "q2"
Questions == {"q1", "q2"}
\* inputs of the loop that start no run
Commands == {"", "history", "config"}

Stages == {"generate_search_query", "browse_web", "select_best_result",
           "retrieve_page_information", "save_search_to_history",
           "generate_final_answer"}

Locals == {"search_query", "results", "result", "content"}

\* the configurations and command lines the process is started with
Startups ==
    \* any command line on any history file, default configuration
    { [retries |-> DefaultMaxRetries, instances |-> <<"A", "B", "C">>,
       mode |-> m, file |-> f] : m \in Modes \ {"interactive"}, f \in InitialFiles }
    \* the interactive loop, default configuration
    \cup { [retries |-> DefaultMaxRetries, instances |-> <<"A", "B", "C">>,
            mode |-> "interactive", file |-> f] :
            f \in {None, Some(<<Tok("{"), Tok("}")>>)} }
    \* config.json sets max_retries or searxng_instances
    \cup { [retries |-> r, instances |-> is, mode |-> "query", file |-> None] :
            r \in ConfiguredRetries, is \in InstanceLists }

Init ==
    /\ \E s \in Startups :
          /\ cfg_max_retries = s.retries
          /\ searxng_instances = s.instances
          /\ mode = s.mode
          /\ file = s.file
    /\ pc = "start"
    /\ search_history = load_history(file)
    /\ question = ""
    /\ search_query = None /\ results = None /\ result = None /\ content = None
    /\ attempt = 0 /\ sleeps = <<>>
    /\ inst = 1 /\ requested = <<>>
    /\ run = 0 /\ stamped = <<>> /\ trace = <<>>
    /\ outcome = "none" /\ ended = <<>>
    /\ assigned = [l \in Locals |-> 0]
    /\ hist0 = search_history /\ file0 = file
    /\ loaded = search_history
    /\ write_status = "none"
    /\ synth = None
    /\ appended = <<>>
    /\ ollama = "unchecked"
    /\ page = 0 /\ reply = <<>>
    /\ peer_history = Array(<<>>) /\ peer_status = "none"

\* the variables only the HistoryStore specification changes
store_vars == <<appended, loaded>>
\* the variables of the component specifications: the process leaves them alone
unit_vars == <<page, reply, peer_history, peer_status>>
\* configuration and command line are read, never written
config_vars == <<cfg_max_retries, searxng_instances, mode, unit_vars>>
local_vars == <<question, search_query, results, result, content, assigned>>
call_vars == <<attempt, sleeps, inst, requested>>
history_vars == <<search_history, file, stamped, write_status>>
run_vars == <<run, hist0, file0, ollama>>

\* a slip: `break` instead of `continue`
AfterRun_exit == "exit"

\* the loop's `continue`, or main's `return`
AfterRun == IF mode = "interactive" THEN "input" ELSE "exit"

\* the pipeline begins with generate_search_query(question)
StartRun(q) ==
    /\ question' = q
    /\ run' = run + 1
    /\ pc' = "generate_search_query"
    /\ trace' = <<"QueryOptimization">>
    /\ outcome' = "running"
    /\ attempt' = 0 /\ sleeps' = <<>>
    /\ inst' = 1 /\ requested' = <<>>
    /\ hist0' = search_history /\ file0' = file
    /\ synth' = None
    /\ UNCHANGED <<search_query, results, result, content, assigned, ended,
                   history_vars, config_vars, store_vars>>

\* the run is over: report and go on with the loop (or leave main)
EndRun(o) ==
    /\ outcome' = o
    /\ ended' = Append(ended, o)
    /\ pc' = AfterRun
    /\ UNCHANGED trace

\* the next stage of the run begins
Enter(stage, p) ==
    /\ pc' = p
    /\ trace' = Append(trace, stage)
    /\ UNCHANGED <<outcome, ended>>

Assign(l) == assigned' = [assigned EXCEPT ![l] = run]

\* main, lines 413-419: --history and --config show and return
ShowAndExit ==
    /\ pc = "start"
    /\ mode \in {"history", "config"}
    /\ pc' = "exit"
    /\ UNCHANGED <<config_vars, local_vars, call_vars, history_vars, run_vars,
                   trace, outcome, ended, synth, store_vars>>

\* a slip: the failed check is reported and main goes on
CheckOllamaFailed_goesOn ==
    /\ pc = "start"
    /\ mode \in {"query", "interactive"}
    /\ ollama' = "failed"
    /\ pc' = "input"
    /\ UNCHANGED <<config_vars, local_vars, call_vars, history_vars, run,
                   hist0, file0, trace, outcome, ended, synth, store_vars>>

\* main, lines 423-431: ollama.list() fails
CheckOllamaFailed ==
    /\ pc = "start"
    /\ mode \in {"query", "interactive"}
    /\ ollama' = "failed"
    /\ pc' = "exit"
    /\ UNCHANGED <<config_vars, local_vars, call_vars, history_vars, run,
                   hist0, file0, trace, outcome, ended, synth, store_vars>>

\* main, lines 423-480: ollama.list() succeeds
CheckOllamaOk ==
    /\ pc = "start"
    /\ ollama' = "ok"
    /\ \/ /\ mode = "interactive"
          /\ pc' = "input"
          /\ UNCHANGED <<config_vars, local_vars, call_vars, history_vars,
                         run, hist0, file0, trace, outcome, ended, synth,
                         store_vars>>
       \/ /\ mode = "query"
          /\ StartRun(Question(run + 1))

\* interactive_search, lines 316-338: a command, or quit
ReadCommand ==
    /\ pc = "input"
    /\ \E c \in Commands \cup {"quit"} :
          pc' = IF c = "quit" THEN "exit" ELSE "input"
    /\ UNCHANGED <<config_vars, local_vars, call_vars, history_vars, run_vars,
                   trace, outcome, ended, synth, store_vars>>

\* interactive_search, lines 319-341: a question
ReadQuestion ==
    /\ pc = "input"
    /\ run < MaxRuns
    /\ StartRun(Question(run + 1))
    /\ UNCHANGED ollama

\* KeyboardInterrupt in a blocking call: the loop breaks, or main is left
Interrupt ==
    /\ pc \in Stages \cup {"input"}
    /\ pc' = "exit"
    /\ IF pc \in Stages
       THEN outcome' = "Interrupted" /\ ended' = Append(ended, "Interrupted")
       ELSE UNCHANGED <<outcome, ended>>
    /\ UNCHANGED <<config_vars, local_vars, call_vars, history_vars, run_vars,
                   trace, synth, store_vars>>

----------------------------------------------------------------------------
(* The stages of a run *)

\* a slip: `if search_query is None`
QueryMissing_none(sq) == IsNone(sq)

\* `if not search_query`
QueryMissing(sq) == IsNone(sq) \/ Val(sq) = ""
\* `if not results`
NoResults(rs) == IsNone(rs) \/ Val(rs) = <<>>
\* `if not result`
NoResult(r) == IsNone(r)
\* a slip: `if content is None`
NoContent_none(c) == IsNone(c)

\* `if not content`
NoContent(c) == ~HasContent(c)

\* one attempt of model_response ends the call: it succeeded, or it was the
\* last one
AttemptReturns(ok) == ok \/ ~RetryAfter(attempt, CallMaxRetries)

\* what model_response returns then
Response(ok, text) == IF ok THEN Some(text) ELSE None

\* the attempt failed and the loop goes on after time.sleep
SleepAndRetry ==
    /\ sleeps' = Append(sleeps, Backoff(attempt))
    /\ UNCHANGED <<pc, trace, outcome, ended>>

\* stage 1, generate_search_query: one attempt of its model_response call
\* and, when the call returns, lines 341-349
GenerateSearchQuery ==
    /\ pc = "generate_search_query"
    /\ \E ok \in BOOLEAN, text \in QueryReplies :
          /\ attempt' = attempt + 1
          /\ IF ~AttemptReturns(ok)
             THEN /\ SleepAndRetry
                  /\ UNCHANGED <<search_query, assigned, inst, requested>>
             ELSE /\ search_query' = Response(ok, text)
                  /\ Assign("search_query")
                  /\ UNCHANGED sleeps
                  /\ IF QueryMissing(search_query')
                     THEN /\ EndRun("QueryGenerationFailed")
                          /\ UNCHANGED <<inst, requested>>
                     ELSE /\ Enter("FederatedSearch", "browse_web")
                          /\ inst' = 1
                          /\ requested' = <<>>
    /\ UNCHANGED <<config_vars, question, results, result, content,
                   history_vars, run_vars, synth, store_vars>>

\* stage 2, browse_web: the GET of the next instance and, when the instance
\* has results, the return and lines 350-355
BrowseWeb ==
    /\ pc = "browse_web"
    /\ inst <= Len(searxng_instances)
    /\ \E resp \in Responses :
          LET b == searxng_instances[inst]
              rs == ResultsOf(b, resp)
          IN  /\ requested' = Append(requested, Get1(b, resp))
              /\ IF Raises(resp) \/ rs = <<>>
                 THEN /\ inst' = NextInstance(inst)
                      /\ attempt' = 0
                      /\ sleeps' = <<>>
                      /\ UNCHANGED <<pc, trace, outcome, ended, results,
                                     assigned>>
                 ELSE /\ results' = Some(Truncated(rs))
                      /\ Assign("results")
                      /\ UNCHANGED inst
                      /\ IF NoResults(results')
                         THEN /\ EndRun("NoResultsFound")
                              /\ attempt' = 0
                              /\ sleeps' = <<>>
                         ELSE /\ Enter("ResultSelection", "select_best_result")
                              /\ attempt' = 0
                              /\ sleeps' = <<>>
    /\ UNCHANGED <<config_vars, question, search_query, result, content,
                   history_vars, run_vars, synth, store_vars>>

\* stage 2, browse_web: no instance is left, lines 177-178 and 350-352
BrowseWebExhausted ==
    /\ pc = "browse_web"
    /\ inst > Len(searxng_instances)
    /\ results' = None
    /\ Assign("results")
    /\ EndRun("NoResultsFound")
    /\ attempt' = 0
    /\ sleeps' = <<>>
    /\ UNCHANGED <<config_vars, question, search_query, result, content,
                   inst, requested, history_vars, run_vars, synth, store_vars>>

\* stage 3, select_best_result: one attempt of its model_response call and,
\* when the call returns, lines 271-287 and 356-365
SelectBestResult ==
    /\ pc = "select_best_result"
    /\ \E ok \in BOOLEAN, text \in SelectReplies :
          /\ attempt' = attempt + 1
          /\ IF ~AttemptReturns(ok)
             THEN /\ SleepAndRetry
                  /\ UNCHANGED <<result, assigned>>
             ELSE /\ result' = SelectFrom(Response(ok, text), Val(results))
                  /\ Assign("result")
                  /\ UNCHANGED sleeps
                  /\ IF NoResult(result')
                     THEN EndRun("SelectionFailed")
                     ELSE Enter("ContentRetrieval", "retrieve_page_information")
    /\ inst' = 1
    /\ requested' = <<>>
    /\ UNCHANGED <<config_vars, question, search_query, results, content,
                   history_vars, run_vars, synth, store_vars>>

\* stage 4, retrieve_page_information and lines 366-371
RetrievePageInformation ==
    /\ pc = "retrieve_page_information"
    /\ \E ok \in BOOLEAN, len \in PageLengths :
          /\ content' = IF ok THEN Some(Limited(len)) ELSE None
          /\ Assign("content")
          /\ IF NoContent(content')
             THEN EndRun("ContentRetrievalFailed")
             ELSE Enter("HistoryRecord", "save_search_to_history")
    /\ attempt' = 0
    /\ sleeps' = <<>>
    /\ UNCHANGED <<config_vars, question, search_query, results, result,
                   inst, requested, history_vars, run_vars, synth, store_vars>>

\* stage 5, save_search_to_history and lines 376-377; the append raises on a
\* history that is no list, which the caller's `except Exception` reports
SaveToHistory ==
    /\ pc = "save_search_to_history"
    /\ IF CanAppend(search_history)
       THEN \E w \in WriteOutcomes, k \in 0..MaxPartial :
               /\ SaveSearchToHistory(Val(search_query), question,
                      [title |-> Val(result)[1], url |-> Val(result)[2]], w, k)
               /\ IF SaveContinues(w)
                  THEN Enter("AnswerSynthesis", "generate_final_answer")
                  ELSE EndRun("UnexpectedError")
       ELSE /\ EndRun("UnexpectedError")
            /\ UNCHANGED history_vars
    /\ UNCHANGED <<config_vars, local_vars, call_vars, run_vars, synth,
                   store_vars>>

\* chunks of the streamed answer
MaxChunks == 2
\* the text of the first n chunks: chunk i is the one character i
Chunks(n) == [i \in 1..n |-> i]

\* a slip: the `except` returns the text accumulated so far
Streamed_prefix(n, failed) == Chunks(n)

\* streaming_model_response: `response` has accumulated the n chunks when
\* the stream ends or raises; the `except` returns ""
Streamed(n, failed) == IF failed THEN <<>> ELSE Chunks(n)

\* a slip: a failed synthesis takes the run's entry back
GenerateFinalAnswer_rollback ==
    /\ pc = "generate_final_answer"
    /\ \E n \in 0..MaxChunks, failed \in BOOLEAN :
          /\ synth' = Some([question |-> question, query |-> Val(search_query),
                            title |-> Val(result)[1], content |-> Val(content),
                            emitted |-> n, failed |-> failed,
                            returned |-> Streamed(n, failed)])
          /\ EndRun(IF failed THEN "SynthesisFailed" ELSE "Completed")
          /\ IF failed
             THEN /\ search_history' = hist0
                  /\ file' = file0
                  /\ UNCHANGED <<stamped, write_status>>
             ELSE UNCHANGED history_vars
    /\ UNCHANGED <<config_vars, local_vars, call_vars, run_vars, store_vars>>

\* stage 6, generate_final_answer: the stream yields n chunks and then ends
\* or raises
GenerateFinalAnswer ==
    /\ pc = "generate_final_answer"
    /\ \E n \in 0..MaxChunks, failed \in BOOLEAN :
          /\ synth' = Some([question |-> question, query |-> Val(search_query),
                            title |-> Val(result)[1], content |-> Val(content),
                            emitted |-> n, failed |-> failed,
                            returned |-> Streamed(n, failed)])
          /\ EndRun(IF failed THEN "SynthesisFailed" ELSE "Completed")
    /\ UNCHANGED <<config_vars, local_vars, call_vars, history_vars, run_vars,
                   store_vars>>

Next ==
    \/ ShowAndExit
    \/ CheckOllamaFailed
    \/ CheckOllamaOk
    \/ ReadCommand
    \/ ReadQuestion
    \/ Interrupt
    \/ GenerateSearchQuery
    \/ BrowseWeb
    \/ BrowseWebExhausted
    \/ SelectBestResult
    \/ RetrievePageInformation
    \/ SaveToHistory
    \/ GenerateFinalAnswer

Spec == Init /\ [][Next]_vars

\* every external call returns or fails: a stage that is waiting for its
\* call goes on (the user's interrupt and the user's input are not owed)
StageStep ==
    \/ GenerateSearchQuery
    \/ BrowseWeb
    \/ BrowseWebExhausted
    \/ SelectBestResult
    \/ RetrievePageInformation
    \/ SaveToHistory
    \/ GenerateFinalAnswer

SpecLive == Spec /\ WF_vars(StageStep)

----------------------------------------------------------------------------
(* The HistoryStore alone: a process that only appends *)

HistInit ==
    /\ cfg_max_retries = DefaultMaxRetries
    /\ searxng_instances = <<"A", "B", "C">>
    /\ mode = "interactive"
    /\ pc = "store"
    /\ file \in InitialFiles
    /\ search_history = load_history(file)
    /\ question = ""
    /\ search_query = None /\ results = None /\ result = None /\ content = None
    /\ attempt = 0 /\ sleeps = <<>>
    /\ inst = 1 /\ requested = <<>>
    /\ run = 0 /\ stamped = <<>> /\ trace = <<>>
    /\ outcome = "none" /\ ended = <<>>
    /\ assigned = [l \in Locals |-> 0]
    /\ hist0 = search_history /\ file0 = file
    /\ loaded = search_history
    /\ write_status = "none"
    /\ synth = None
    /\ appended = <<>>
    /\ ollama = "ok"
    /\ page = 0 /\ reply = <<>>
    /\ peer_history = Array(<<>>) /\ peer_status = "none"

\* save_search_to_history on a list: the n-th append records the n-th question
HistAppend ==
    /\ pc = "store"
    /\ CanAppend(search_history)
    /\ Len(appended) < MaxAppends
    /\ LET q == Question(Len(appended) + 1)
           res == [title |-> <<"A", "1">>, url |-> <<"https", ":", "A", "1">>]
       IN  /\ \E w \in WriteOutcomes, k \in 0..MaxPartial :
                 SaveSearchToHistory("capital France", q, res, w, k)
           /\ appended' = Append(appended, Entry(Now, q, "capital France", res))
    /\ hist0' = search_history
    /\ file0' = file
    /\ UNCHANGED <<config_vars, pc, local_vars, call_vars, run, trace, outcome,
                   ended, loaded, synth, ollama>>

\* save_search_to_history on a loaded value that is no list: append raises
HistAppendRaises ==
    /\ pc = "store"
    /\ ~CanAppend(search_history)
    /\ outcome' = "UnexpectedError"
    /\ UNCHANGED <<config_vars, pc, local_vars, call_vars, history_vars,
                   run_vars, trace, ended, synth, store_vars>>

HistNext == HistAppend \/ HistAppendRaises

SpecHist == HistInit /\ [][HistNext]_vars

----------------------------------------------------------------------------
(* The components alone *)

\* what a component specification leaves at its initial value
UnitDefaults ==
    /\ cfg_max_retries = DefaultMaxRetries
    /\ searxng_instances = <<"A", "B", "C">>
    /\ mode = "query"
    /\ question = ""
    /\ search_query = None
    /\ attempt = 0 /\ sleeps = <<>>
    /\ inst = 1 /\ requested = <<>>
    /\ run = 0 /\ trace = <<>>
    /\ outcome = "none" /\ ended = <<>>
    /\ assigned = [l \in Locals |-> 0]
    /\ synth = None
    /\ appended = <<>>
    /\ ollama = "ok"

\* lengths of the stripped page text: around the limit, and far from it
FetchSpread == 30
FetchLengths ==
    {0, ContentLimit + ContentLimit \div 2}
        \cup ((ContentLimit - FetchSpread)..(ContentLimit + FetchSpread))

FetchInit ==
    /\ UnitDefaults
    /\ pc = "fetch"
    /\ page \in FetchLengths
    /\ content = None
    /\ file = None
    /\ search_history = Array(<<>>)
    /\ hist0 = search_history /\ file0 = file /\ loaded = search_history
    /\ stamped = <<>> /\ write_status = "none"
    /\ results = None /\ result = None
    /\ reply = <<>>
    /\ peer_history = Array(<<>>) /\ peer_status = "none"

\* retrieve_page_information(url): the GET raises, or the stripped text of
\* length `page` is limited and returned
FetchPage ==
    /\ pc = "fetch"
    /\ pc' = "fetched"
    /\ \E ok \in BOOLEAN :
          content' = IF ok THEN Some(Limited(page)) ELSE None
    /\ UNCHANGED <<cfg_max_retries, searxng_instances, mode, page, reply,
                   peer_history, peer_status, question, search_query, results,
                   result, assigned, call_vars, history_vars, run_vars, trace,
                   outcome, ended, synth, store_vars>>

FetchNext == FetchPage

SpecFetch == FetchInit /\ [][FetchNext]_vars

----------------------------------------------------------------------------
(* Two assistants on one history file *)

\* appends of each of the two assistants
MaxPeerAppends == 2

\* number of entries of history h that record question q
Recorded(h, q) ==
    Cardinality({i \in 1..Len(h.items) : h.items[i].question = q})

\* both assistants were constructed while the file held the same text
PeerInit ==
    /\ UnitDefaults
    /\ pc = "peers"
    /\ file \in InitialFiles
    /\ search_history = load_history(file)
    /\ peer_history = load_history(file)
    /\ hist0 = search_history /\ file0 = file /\ loaded = search_history
    /\ stamped = <<>>
    /\ write_status = "none" /\ peer_status = "none"
    /\ results = None /\ result = None /\ content = None
    /\ page = 0 /\ reply = <<>>

\* save_search_to_history of the first assistant, which records "q1"
PeerAppendFirst ==
    /\ pc = "peers"
    /\ CanAppend(search_history)
    /\ Recorded(search_history, "q1") < MaxPeerAppends
    /\ \E w \in WriteOutcomes, k \in 0..MaxPartial :
          SaveSearchToHistory("capital France", "q1",
              [title |-> <<"A", "1">>, url |-> <<"https", ":", "A", "1">>], w, k)
    /\ UNCHANGED <<cfg_max_retries, searxng_instances, mode, page, reply,
                   peer_history, peer_status, pc, local_vars, call_vars,
                   run_vars, trace, outcome, ended, synth, store_vars>>

\* save_search_to_history of the second assistant, which records "q2": the
\* same code on its own self.search_history and the same file
PeerAppendSecond ==
    /\ pc = "peers"
    /\ CanAppend(peer_history)
    /\ Recorded(peer_history, "q2") < MaxPeerAppends
    /\ \E w \in WriteOutcomes, k \in 0..MaxPartial :
          LET entry == Entry(Now, "q2", "capital France",
                             [title |-> <<"B", "1">>,
                              url |-> <<"https", ":", "B", "1">>])
              items == Trimmed(Append(peer_history.items, entry))
          IN  /\ peer_history' = Array(items)
              /\ file' = Written(file, items, w, k)
              /\ peer_status' = IF w = "ok" THEN "ok" ELSE "failed"
              /\ stamped' = Append(stamped, run)
    /\ UNCHANGED <<cfg_max_retries, searxng_instances, mode, page, reply,
                   search_history, write_status, pc, local_vars, call_vars,
                   run_vars, trace, outcome, ended, synth, store_vars>>

PeerNext == PeerAppendFirst \/ PeerAppendSecond

SpecPeers == PeerInit /\ [][PeerNext]_vars

----------------------------------------------------------------------------
(* The reply parser of select_best_result alone *)

\* lines of a reply
MaxReplyLines == 2

\* the lines a reply is made of: the two fields, a field without value, a
\* field whose value is blank, other case, an indented line, a blank line,
\* a space before the colon
ReplyLines ==
    { <<"Title", ":", " ", "A", "2">>,
      <<"Title", ":">>,
      <<"URL", ":", " ", "https", ":", "A", "2">>,
      <<"URL", ":", " ">>,
      <<"title", ":", "A", "2">>,
      <<"url", ":", "https", ":", "A", "2">>,
      <<" ", "Title", ":", "B", "1", " ">>,
      <<" ">>,
      <<"Title", " ", ":", "A", "2">> }

\* the replies: every text of at most MaxReplyLines of these lines
ReplyTexts == UNION {[1..n -> ReplyLines] : n \in 0..MaxReplyLines}

\* the ResultSets browse_web hands over: eight results, one result, one
\* result without title and url
SelectResultSets ==
    { Take(BackendResults("A"), max_results),
      BackendResults("B"),
      BackendResults("C") }

SelectInit ==
    /\ UnitDefaults
    /\ pc = "select"
    /\ reply \in ReplyTexts
    /\ \E rs \in SelectResultSets : results = Some(rs)
    /\ result = None
    /\ content = None /\ page = 0
    /\ file = None
    /\ search_history = Array(<<>>)
    /\ hist0 = search_history /\ file0 = file /\ loaded = search_history
    /\ stamped = <<>> /\ write_status = "none"
    /\ peer_history = Array(<<>>) /\ peer_status = "none"

\* select_best_result, lines 271-287, on the reply and the ResultSet
ParseReply ==
    /\ pc = "select"
    /\ pc' = "selected"
    /\ result' = SelectFrom(Some(reply), Val(results))
    /\ UNCHANGED <<cfg_max_retries, searxng_instances, mode, page, reply,
                   peer_history, peer_status, question, search_query, results,
                   content, assigned, call_vars, history_vars, run_vars, trace,
                   outcome, ended, synth, store_vars>>

SelectNext == ParseReply

SpecSelect == SelectInit /\ [][SelectNext]_vars

----------------------------------------------------------------------------
(* Observations used by the properties *)

\* local l was assigned by the current run
Cur(l) == run > 0 /\ assigned[l] = run

\* the entries a load of the history file yields
Persisted == load_history(file).items

\* the entries of a sequence that this process recorded
Own(items) == {items[i] : i \in {j \in 1..Len(items) : items[j].timestamp >= 1}}

\* the run that recorded entry e, and how run r ended ("running": not yet)
RunOf(e) == stamped[e.timestamp]
OutcomeOf(r) == IF r <= Len(ended) THEN ended[r] ELSE "running"

\* the current run has written (or tried to write) the history file
WroteThisRun == run > 0 /\ stamped # <<>> /\ stamped[Len(stamped)] = run

FiveStages == <<"QueryOptimization", "FederatedSearch", "ResultSelection",
                "ContentRetrieval", "HistoryRecord">>

StageFatal == {"QueryGenerationFailed", "NoResultsFound",
               "ContentRetrievalFailed", "SynthesisFailed"}

\* browse_web has returned to the current run and nothing ran since
BrowseReturned ==
    /\ Cur("results")
    /\ \/ pc = "select_best_result" /\ attempt = 0
       \/ outcome = "NoResultsFound"

----------------------------------------------------------------------------
(* C1 *)

\* C1: once browse_web returned a non-empty ResultSet to the run, the
\* selection stage yields a SelectedResult whatever the inference call did
\* (success, unparsable text, empty text, failure after all retries).
C1_SelectionAlwaysProduces ==
    (Cur("results") /\ Cur("result") /\ ~IsNone(results) /\ Val(results) # <<>>)
        => ~IsNone(result)

----------------------------------------------------------------------------
(* C2 *)

\* C2 as stated: no entry of the persisted log belongs to a run that ended in
\* QueryGenerationFailed, NoResultsFound, ContentRetrievalFailed or
\* SynthesisFailed.
C2_NoFailedRunRecorded ==
    \A e \in Own(Persisted) : OutcomeOf(RunOf(e)) \notin StageFatal

\* C2 amended: every entry this process persisted belongs to a run that
\* passed QueryOptimization, FederatedSearch, ResultSelection and
\* ContentRetrieval with a non-empty query, result set, selection and content
\* and reached HistoryRecord; such a run is running, completed, interrupted or
\* failed in AnswerSynthesis, and no run that ended in another failure has an
\* entry.
C2_RecordedRunsPassedRetrieval ==
    \A e \in Own(Persisted) :
        LET r == RunOf(e)
        IN  /\ r \in 1..run
            /\ OutcomeOf(r) \in {"running", "Completed", "SynthesisFailed",
                                 "Interrupted"}
            /\ r = run =>
                 /\ Len(trace) >= 5
                 /\ SubSeq(trace, 1, 5) = FiveStages
                 /\ ~IsNone(search_query) /\ Val(search_query) # ""
                 /\ ~IsNone(results) /\ Val(results) # <<>>
                 /\ ~IsNone(result)
                 /\ HasContent(content)

\* a first run failed in synthesis and is in the file; a second run failed at
\* content retrieval and is not
C2_Witness ==
    /\ Len(ended) = 2
    /\ ended[1] = "SynthesisFailed"
    /\ ended[2] = "ContentRetrievalFailed"
    /\ \E e \in Own(Persisted) : RunOf(e) = 1
    /\ \A e \in Own(Persisted) : RunOf(e) # 2

----------------------------------------------------------------------------
(* C3 *)

\* C3: from an empty history, after N appends the history holds the last
\* min(N, 50) appended entries, in order.
C3_HistoryLength ==
    loaded = Array(<<>>) =>
        LET n == Len(appended)
            m == Min(n, HistoryCap)
        IN  /\ search_history.type = "array"
            /\ Len(search_history.items) = m
            /\ search_history.items = SubSeq(appended, n - m + 1, n)

\* the 51st append discarded the oldest entry
C3_Witness ==
    /\ loaded = Array(<<>>)
    /\ Len(appended) = HistoryCap + 1
    /\ search_history.items[1] = appended[2]

----------------------------------------------------------------------------
(* C4 *)

\* C4: every GET of a browse_web call goes to the next instance of the
\* configured list, and is made only while no earlier GET of the call had
\* results: list order, each instance at most once, none after the first hit.
C4_InOrderOnce ==
    [][ requested' # requested =>
          \/ requested' = <<>>
          \/ /\ pc = "browse_web"
             /\ \A i \in 1..Len(requested) : requested[i].response # "results"
             /\ Len(requested) < Len(searxng_instances)
             /\ Len(requested') = Len(requested) + 1
             /\ SubSeq(requested', 1, Len(requested)) = requested
             /\ requested'[Len(requested')].instance
                    = searxng_instances[Len(requested) + 1] ]_vars

\* A raised, B had no results, C had results: the GETs are A, B, C
C4_Witness ==
    /\ Len(requested) = 3
    /\ requested[1] = [instance |-> "A", response |-> "raised"]
    /\ requested[2] = [instance |-> "B", response |-> "empty"]
    /\ requested[3] = [instance |-> "C", response |-> "results"]
    /\ pc = "select_best_result"

----------------------------------------------------------------------------
(* C5 *)

\* C5: browse_web returns the first min(max_results, n) results of the first
\* instance whose response had n > 0 results, and None exactly when every
\* instance of the list raised or had no results.
C5_FirstNonEmptyBackend ==
    BrowseReturned =>
        LET n == Len(requested)
            hits == {i \in 1..n : requested[i].response = "results"}
        IN  /\ n <= Len(searxng_instances)
            /\ \A i \in 1..n : requested[i].instance = searxng_instances[i]
            /\ IF hits = {}
               THEN results = None /\ n = Len(searxng_instances)
               ELSE LET rs == BackendResults(searxng_instances[n])
                        m == Min(max_results, Len(rs))
                    IN  /\ hits = {n}
                        /\ results = Some([j \in 1..m |-> rs[j]])

\* instance A answered with 9 results: the first 8 are returned
C5_Witness ==
    /\ BrowseReturned
    /\ Len(requested) = 1
    /\ ~IsNone(results)
    /\ Len(Val(results)) = max_results
    /\ Val(results)[max_results] = SearchResult("A", max_results)

----------------------------------------------------------------------------
(* C6 *)

\* C6: a model_response call makes at most CONFIG['max_retries'] attempts and
\* gives up (query generation gets None) only after that many failures.
C6_ConfiguredAttempts ==
    /\ attempt <= cfg_max_retries
    /\ (outcome = "QueryGenerationFailed" /\ IsNone(search_query))
           => attempt = cfg_max_retries

----------------------------------------------------------------------------
(* C7 *)

\* C7: a run whose query generation, search or fetch failed entered no later
\* stage, and the history and the history file are as they were when the run
\* started.
C7_FailureShortCircuits ==
    /\ (Cur("search_query") /\ (IsNone(search_query) \/ Val(search_query) = ""))
           => /\ trace = <<"QueryOptimization">>
              /\ search_history = hist0 /\ file = file0
    /\ (Cur("results") /\ (IsNone(results) \/ Val(results) = <<>>))
           => /\ trace = SubSeq(FiveStages, 1, 2)
              /\ search_history = hist0 /\ file = file0
    /\ (Cur("content") /\ ~HasContent(content))
           => /\ trace = SubSeq(FiveStages, 1, 4)
              /\ search_history = hist0 /\ file = file0

\* the second run of the loop failed at the fetch after the first one was
\* recorded
C7_Witness ==
    /\ mode = "interactive"
    /\ run = 2
    /\ pc = "input"
    /\ Cur("content") /\ ~HasContent(content)
    /\ search_history.items # <<>>

----------------------------------------------------------------------------
(* C8 *)

\* C8: after a failed write of the history file the run goes on to answer
\* synthesis, which is called with the run's question, query, title and
\* content (unless the user interrupts).
C8_WriteFailureDoesNotAbort ==
    (WroteThisRun /\ write_status = "failed") =>
        \/ pc = "generate_final_answer" /\ trace = FiveStages \o <<"AnswerSynthesis">>
        \/ outcome = "Interrupted"
        \/ /\ outcome \in {"Completed", "SynthesisFailed"}
           /\ trace = FiveStages \o <<"AnswerSynthesis">>
           /\ ~IsNone(synth)
           /\ LET e == search_history.items[Len(search_history.items)]
                  a == Val(synth)
              IN  /\ a.question = question /\ a.question = e.question
                  /\ a.query = Val(search_query) /\ a.query = e.query
                  /\ a.title = Val(result)[1] /\ a.title = e.result.title
                  /\ a.content = Val(content)

\* the write failed and the answer was streamed to its end
C8_Witness ==
    /\ WroteThisRun
    /\ write_status = "failed"
    /\ outcome = "Completed"
    /\ ~IsNone(synth)
    /\ Val(synth).emitted = MaxChunks

----------------------------------------------------------------------------
(* C9 *)

\* C9: in the interactive loop the step that ends a run in a stage-fatal
\* failure returns to the prompt; the loop leaves the prompt for a stage only
\* by starting a new run at QueryOptimization with the new question; and each
\* stage works on values the current run assigned.
C9_LoopSurvivesFailure ==
    /\ [][ (mode = "interactive" /\ outcome = "running" /\ outcome' \in StageFatal)
              => pc' = "input" ]_vars
    /\ [][ (pc = "input" /\ pc' \in Stages)
              => /\ pc' = "generate_search_query"
                 /\ run' = run + 1
                 /\ trace' = <<"QueryOptimization">>
                 /\ attempt' = 0 /\ requested' = <<>>
                 /\ question' = Question(run') ]_vars
    /\ [](/\ pc \in Stages \ {"generate_search_query"} => Cur("search_query")
          /\ pc \in Stages \ {"generate_search_query", "browse_web"}
                => Cur("results")
          /\ pc \in {"retrieve_page_information", "save_search_to_history",
                     "generate_final_answer"} => Cur("result")
          /\ pc \in {"save_search_to_history", "generate_final_answer"}
                => Cur("content"))

\* the first run failed and the second run is searching
C9_Witness ==
    /\ mode = "interactive"
    /\ run = 2
    /\ ended[1] \in StageFatal
    /\ pc = "browse_web"

----------------------------------------------------------------------------
(* C10 *)

\* C10: after an append whose write succeeded, load_history of the file is
\* the in-memory history.
C10_LoadAfterAppend ==
    write_status = "ok" => load_history(file) = search_history

\* the write succeeded after an append that trimmed, and the write of the
\* append before it had failed
C10_Witness ==
    /\ write_status = "ok"
    /\ Len(appended) > HistoryCap + 1
    /\ Len(search_history.items) = HistoryCap
    /\ load_history(file0) # hist0

----------------------------------------------------------------------------
(* C11 *)

\* C11: the history file is overwritten atomically: after a write that
\* failed or stopped partway, a load of the file returns the sequence that
\* was persisted before the write.
C11_AtomicOverwrite ==
    write_status = "failed" => load_history(file) = load_history(file0)

----------------------------------------------------------------------------
(* C12 *)

\* C12: load_history yields a sequence whatever the file holds, so the
\* append of the run that reaches the history record succeeds.
C12_LoadedValueAcceptsAppend ==
    /\ pc = "save_search_to_history" => search_history.type = "array"
    /\ outcome # "UnexpectedError"

----------------------------------------------------------------------------
(* C13 *)

\* number of times stage s was entered by the current run
Entered(s) == Cardinality({i \in 1..Len(trace) : trace[i] = s})

\* C13: a run streams at most once, and once the streaming call has
\* returned the run is over (no retry); a stream that failed after k chunks
\* returned the empty text; a stream that ended returned its chunks
\* concatenated in order.
C13_StreamOnceAllOrNothing ==
    /\ Entered("AnswerSynthesis") <= 1
    /\ ~IsNone(synth) =>
          /\ Entered("AnswerSynthesis") = 1
          /\ pc # "generate_final_answer"
          /\ outcome \in {"Completed", "SynthesisFailed"}
          /\ Val(synth).failed => Val(synth).returned = <<>>
          /\ ~Val(synth).failed =>
                Val(synth).returned = [i \in 1..Val(synth).emitted |-> i]

\* the stream failed after two chunks and the prompt is back
C13_Witness ==
    /\ ~IsNone(synth)
    /\ Val(synth).failed
    /\ Val(synth).emitted = 2
    /\ Val(synth).returned = <<>>
    /\ pc = "input"

----------------------------------------------------------------------------
(* C14 *)

\* C14: a run that entered AnswerSynthesis has entered HistoryRecord before
\* and its entry is the last of the in-memory history; and no step taken
\* from the synthesis stage (end of the stream, failure of the stream, user
\* interrupt) changes the in-memory history or the history file.
C14_RecordPrecedesSynthesis ==
    /\ []( Entered("AnswerSynthesis") > 0 =>
              /\ trace = FiveStages \o <<"AnswerSynthesis">>
              /\ search_history.items # <<>>
              /\ LET e == search_history.items[Len(search_history.items)]
                 IN  /\ e.timestamp = Len(stamped)
                     /\ stamped[e.timestamp] = run
                     /\ e.question = question )
    /\ [][ pc = "generate_final_answer" =>
              /\ search_history' = search_history
              /\ file' = file ]_vars

\* the user interrupted the stream of a run whose entry is in the file
C14_Witness ==
    /\ outcome = "Interrupted"
    /\ Entered("AnswerSynthesis") = 1
    /\ IsNone(synth)
    /\ write_status = "ok"
    /\ Persisted # <<>>
    /\ Persisted[Len(Persisted)].timestamp = Len(stamped)
    /\ Persisted[Len(Persisted)].question = question

----------------------------------------------------------------------------
(* C15 *)

\* C15: the content returned for a page text of length L > 10,000 is its
\* first 10,000 characters followed by the truncation marker; for
\* L <= 10,000 it is the whole text without a marker.
C15_TruncationAtLimit ==
    (pc = "fetched" /\ ~IsNone(content)) =>
        /\ page > ContentLimit =>
              Val(content) = [chars |-> ContentLimit, marker |-> TRUE]
        /\ page <= ContentLimit =>
              Val(content) = [chars |-> page, marker |-> FALSE]

\* a page one character over the limit was cut
C15_Witness ==
    /\ pc = "fetched"
    /\ page = ContentLimit + 1
    /\ content = Some([chars |-> ContentLimit, marker |-> TRUE])

----------------------------------------------------------------------------
(* C16 *)

\* C16: when two assistants that loaded the same file have each completed
\* one successful append, the file holds the entry of the one and the entry
\* of the other.
C16_NoLostUpdate ==
    ( /\ Len(stamped) = 2
      /\ write_status = "ok" /\ peer_status = "ok" )
        => /\ \E i \in 1..Len(Persisted) : Persisted[i].question = "q1"
           /\ \E i \in 1..Len(Persisted) : Persisted[i].question = "q2"

----------------------------------------------------------------------------
(* C17 *)

\* C17: the SelectedResult of a run is the title and the url of one and the
\* same entry of the ResultSet that browse_web returned to that run.
C17_SelectedFromResultSet ==
    (Cur("results") /\ Cur("result") /\ ~IsNone(result)) =>
        \E i \in 1..Len(Val(results)) :
            LET r == Val(results)[i]
            IN  /\ "title" \in DOMAIN r /\ "url" \in DOMAIN r
                /\ r.title = Val(result)[1]
                /\ r.url = Val(result)[2]

----------------------------------------------------------------------------
(* C18 *)

\* C18: a run has started only if the ollama.list() check of this process
\* succeeded; after a failed check the process is at its end, no run has
\* started and the history is the one that was loaded, in memory and in the
\* file.
C18_NoRunWithoutConnectivity ==
    /\ (run > 0 \/ pc \in Stages \/ pc = "input") => ollama = "ok"
    /\ ollama = "failed" =>
          /\ pc = "exit"
          /\ run = 0 /\ trace = <<>> /\ outcome = "none"
          /\ search_history = loaded
          /\ file = file0
          /\ stamped = <<>>

\* the check failed in front of a history file with entries
C18_Witness ==
    /\ ollama = "failed"
    /\ pc = "exit"
    /\ mode = "query"
    /\ Persisted # <<>>

----------------------------------------------------------------------------
(* C19 *)

\* the stages that call model_response
CallStages == {"generate_search_query", "select_best_result"}

\* C19: a call of model_response sleeps only after a failed attempt that is
\* followed by another attempt: the i-th sleep of a call (from 0) lasts 2^i,
\* there is none before the first attempt and none after the last, and a
\* call sleeps at most max_retries - 1 times.
C19_BackoffSchedule ==
    /\ []( /\ \A i \in 1..Len(sleeps) : sleeps[i] = 2 ^ (i - 1)
           /\ Len(sleeps) <= CallMaxRetries - 1
           /\ attempt = 0 => sleeps = <<>>
           /\ (pc \in CallStages) => Len(sleeps) = attempt
           /\ (pc \notin CallStages /\ attempt > 0 /\ outcome # "Interrupted")
                 => Len(sleeps) = attempt - 1 )
    /\ [][ (sleeps' # sleeps /\ sleeps' # <<>>) =>
              /\ pc \in CallStages /\ pc' = pc
              /\ attempt' = attempt + 1
              /\ attempt' < CallMaxRetries
              /\ sleeps' = Append(sleeps, 2 ^ attempt) ]_vars

\* all three attempts of the query call failed: two sleeps, of 1 s and 2 s
C19_Witness ==
    /\ outcome = "QueryGenerationFailed"
    /\ IsNone(search_query)
    /\ attempt = CallMaxRetries
    /\ sleeps = <<1, 2>>

----------------------------------------------------------------------------
(* C20 *)

\* a line without the whitespace around it
Unspaced(l) ==
    LET ink == {i \in 1..Len(l) : l[i] # " "}
    IN  IF ink = {} THEN <<>>
        ELSE SubSeq(l, CHOOSE i \in ink : \A j \in ink : i <= j,
                       CHOOSE i \in ink : \A j \in ink : j <= i)

\* the lines of the text that start with `prefix:`
FieldLines(text, prefix) ==
    {i \in 1..Len(text) :
        LET u == Unspaced(text[i])
        IN  Len(u) >= 2 /\ u[1] = prefix /\ u[2] = ":"}

\* the text after the first colon of the first line that starts with
\* `prefix:`
FieldValue(text, prefix) ==
    LET fl == FieldLines(text, prefix)
        u == Unspaced(text[CHOOSE i \in fl : \A j \in fl : i <= j])
    IN  Unspaced(SubSeq(u, 3, Len(u)))

\* the reply names a title and a url
NamesBoth(text) ==
    /\ FieldLines(text, "Title") # {} /\ FieldValue(text, "Title") # <<>>
    /\ FieldLines(text, "URL") # {} /\ FieldValue(text, "URL") # <<>>

\* C20: for a non-empty reply (lines and values taken without the
\* whitespace around them) the result is the pair of the values after the
\* first colon of the first `Title:` line and of the first `URL:` line when
\* both lines exist with non-empty values, and otherwise the title and url
\* of the first element of the ResultSet ('Unknown' and '' where that
\* element has none).
C20_ParseOrFirst ==
    (pc = "selected" /\ reply # <<>>) =>
        IF NamesBoth(reply)
        THEN result = Some(<<FieldValue(reply, "Title"), FieldValue(reply, "URL")>>)
        ELSE LET first == Val(results)[1]
             IN  result = Some(<<IF "title" \in DOMAIN first THEN first.title
                                 ELSE <<"Unknown">>,
                                 IF "url" \in DOMAIN first THEN first.url
                                 ELSE <<>> >>)

\* the reply names a title but its URL line has a blank value: the first
\* result was taken
C20_Witness ==
    /\ pc = "selected"
    /\ reply = << <<"Title", ":", " ", "A", "2">>, <<"URL", ":", " ">> >>
    /\ results = Some(BackendResults("B"))
    /\ result = Some(<< <<"B", "1">>, <<"https", ":", "B", "1">> >>)

----------------------------------------------------------------------------
(* C21 *)

\* the text the fetch returns for a page that is empty once stripped
EmptyText == [chars |-> 0, marker |-> FALSE]

\* C21: a run whose fetch returned the empty text has ended in
\* ContentRetrievalFailed after four stages, with the history as it was when
\* the run started and without a streaming call; and a run is at (or past)
\* HistoryRecord only with a content that is a non-empty text.
C21_EmptyContentEndsRun ==
    /\ (Cur("content") /\ content = Some(EmptyText)) =>
          /\ outcome = "ContentRetrievalFailed"
          /\ pc \notin Stages
          /\ trace = SubSeq(FiveStages, 1, 4)
          /\ search_history = hist0 /\ file = file0
          /\ ~WroteThisRun
          /\ IsNone(synth)
    /\ (pc \in {"save_search_to_history", "generate_final_answer"}
        \/ Entered("HistoryRecord") > 0) =>
          /\ Cur("content")
          /\ ~IsNone(content)
          /\ Val(content) # EmptyText

\* the fetch of a single-question run returned the empty text
C21_Witness ==
    /\ mode = "query"
    /\ pc = "exit"
    /\ Cur("content") /\ content = Some(EmptyText)
    /\ outcome = "ContentRetrievalFailed"

----------------------------------------------------------------------------
(* C22 *)

SixStages == FiveStages \o <<"AnswerSynthesis">>

\* C22: when every external call returns or fails, a running run reaches a
\* terminal state; a run enters each stage at most once and in order; a
\* model_response call makes at most max_retries attempts; browse_web sends
\* at most one GET to each configured instance; the fetch, the history
\* write and the streaming call are each a single call.
C22_RunTerminatesBounded ==
    /\ (outcome = "running") ~> (outcome # "running")
    /\ []( /\ Len(trace) <= Len(SixStages)
           /\ trace = SubSeq(SixStages, 1, Len(trace))
           /\ attempt <= CallMaxRetries
           /\ Len(requested) <= Len(searxng_instances)
           /\ \A i, j \in 1..Len(requested) :
                 i # j => requested[i].instance # requested[j].instance
           /\ Cardinality({i \in 1..Len(stamped) : run > 0 /\ stamped[i] = run}) <= 1 )
    /\ [][ (pc \in {"retrieve_page_information", "save_search_to_history",
                    "generate_final_answer"})
              => (pc' # pc) ]_vars

\* the selection call used all its attempts and the run ended
C22_Witness ==
    /\ outcome = "SelectionFailed"
    /\ trace = SubSeq(FiveStages, 1, 3)
    /\ attempt = CallMaxRetries
    /\ pc \notin Stages

====
